---- MODULE Spec2Model ----
(***************************************************************************)
(* A model of main.go: the dispatcher in main, DNSOverTCP and              *)
(* DNSOverHTTPS, together with the peers they talk to (a TCP peer that     *)
(* sends bytes and may close, an HTTP server that answers with a status    *)
(* and a body).  Byte buffers are sequences of integers.                   *)
(***************************************************************************)
EXTENDS Integers, Sequences, FiniteSets, TLC

\* ------------------------------------------------------------- bounds
\* Largest byte value the TCP peer and the HTTP server put on the wire.
MaxByte == 2
\* Number of bytes the TCP peer sends at most on one connection.
MaxStream == 4
\* The body cap the specification asks of the web transport, scaled down.
BodyCap == 2

Byte == 0..MaxByte
\* The HTTP server sends bodies of up to one byte more than the cap.
MaxHttpBody == BodyCap + 1

\* ---------------------------------------------------------- constants
Dot == 46
TypeA == 1
StatusOK == 200
Statuses == {StatusOK, 500}
DefaultServer == "8.8.8.8"
DefaultDohURL == "https://cloudflare-dns.com/dns-query"

\* Domains given on the command line, as character codes: "a.b", "a." and
\* "a..b" (an empty label, which the codec rejects).
Domains == { <<97, Dot, 98>>, <<97, Dot>>, <<97, Dot, Dot, 98>> }
Methods == {"tcp", "http", "doh", "udp"}
ArgVectors ==
    { <<"prog">> } \cup { <<"prog", d>> : d \in Domains }
        \cup { <<"prog", d, m>> : d \in Domains, m \in Methods }

\* ------------------------------------------------------------- values
NoErr == [kind |-> "nil", status |-> 0, body |-> <<>>]
Err(k) == [kind |-> k, status |-> 0, body |-> <<>>]
NilMsg == [nil |-> TRUE, answers |-> <<>>]
NoReq == [method |-> "", url |-> "", dns |-> <<>>, accept |-> ""]
Zeros(n) == [i \in 1..n |-> 0]
Min(a, b) == IF a < b THEN a ELSE b
Drop(s, n) == SubSeq(s, n + 1, Len(s))
Range(s) == {s[i] : i \in 1..Len(s)}

\* --------------------------------------------------- the external codec
\* dns.Fqdn: a trailing dot is added unless the name already ends in one.
Fqdn(s) == IF s # <<>> /\ s[Len(s)] = Dot THEN s ELSE Append(s, Dot)

\* The labels of a fully qualified name in wire form: each label as its
\* length followed by its characters, then the root label 0.  An empty
\* label inside the name is an error, reported as <<-1>>.
RECURSIVE PackName(_, _)
PackName(s, label) ==
    IF s = <<>> THEN <<0>>
    ELSE IF Head(s) = Dot
         THEN IF label = <<>> THEN <<-1>>
              ELSE LET rest == PackName(Tail(s), <<>>)
                   IN  IF rest = <<-1>> THEN rest
                       ELSE <<Len(label)>> \o label \o rest
         ELSE PackName(Tail(s), Append(label, Head(s)))

\* m.Pack() of the question built by SetQuestion(Fqdn(domain), qtype) with
\* RecursionDesired: a header byte (one question), the name, the type.
Pack(q) ==
    LET name == IF q.name = <<Dot>> THEN <<0>> ELSE PackName(q.name, <<>>)
    IN  IF name = <<-1>> THEN [ok |-> FALSE, bytes |-> <<>>]
        ELSE [ok |-> TRUE, bytes |-> <<1>> \o name \o <<q.qtype>>]

\* resp.Unpack(buf): the first byte is the header and declares how many
\* answer bytes follow; a buffer with no header, or with fewer bytes than
\* the header declares, is malformed.  Bytes after the answers are ignored.
Unpack(buf) ==
    IF Len(buf) >= 1 /\ buf[1] <= Len(buf) - 1
    THEN [ok |-> TRUE, msg |-> [nil |-> FALSE, answers |-> SubSeq(buf, 2, 1 + buf[1])]]
    ELSE [ok |-> FALSE, msg |-> [nil |-> FALSE, answers |-> <<>>]]

VARIABLES
    args,        \* os.Args
    mainPc,      \* where main is: "start", "call", "exit"
    exit,        \* how the process ended: "none", "usage", "unknown", "failed", "printed"
    invoked,     \* the transport main called, with its endpoint
    question,    \* m, the query message
    pc,          \* where the running transport is
    result,      \* what the transport returned: [msg, err]
    opened,      \* resources open now: "conn", "body"
    deferred,    \* resources with a deferred Close
    everOpened,  \* history: every resource ever opened, in order
    msgBytes,    \* the packed query
    written,     \* history: bytes written to the connection
    wire,        \* bytes the peer sent that the transport has not read yet
    sent,        \* history: every byte the peer sent
    peerClosed,  \* the peer closed its side
    lengthBytes, \* the 2-byte prefix buffer
    lenGot,      \* history: bytes the prefix read returned
    respLength,
    respBytes,   \* the body buffer
    bodyGot,     \* history: bytes the body read returned
    decoded,     \* history: every buffer handed to Unpack, in order
    req,         \* the HTTP request built by DNSOverHTTPS
    requests,    \* history: every HTTP request sent
    srv,         \* the HTTP server: "none", "headers", "eof", "abort", "failed"
    srvStatus,   \* the status code the server answered with
    bodyWire,    \* body bytes the server sent that have not been read yet
    bodySent,    \* history: every body byte the server sent
    respStatus,  \* resp.StatusCode
    httpBuf,     \* the buffer ioutil.ReadAll is filling
    ioLog,       \* history: the I/O calls made, in order
    law          \* a length or a byte pair put through the prefix conversions

tcpVars == <<msgBytes, written, wire, sent, peerClosed, lengthBytes, lenGot,
             respLength, respBytes, bodyGot>>
httpVars == <<req, requests, srv, srvStatus, bodyWire, bodySent, respStatus,
              httpBuf>>
progVars == <<args, mainPc, exit, invoked, question, pc, result, opened,
              deferred, everOpened, decoded, tcpVars, httpVars, ioLog>>
vars == <<progVars, law>>

\* No conversion under way.
NoLaw == [step |-> "none", n |-> -1, bytes |-> <<>>, back |-> -1]

\* The program before main has done anything.
Idle ==
    /\ mainPc = "start"
    /\ exit = "none"
    /\ invoked = [transport |-> "none", endpoint |-> ""]
    /\ question = [name |-> <<>>, qtype |-> 0, rd |-> FALSE]
    /\ pc = "idle"
    /\ result = [msg |-> NilMsg, err |-> NoErr]
    /\ opened = {}
    /\ deferred = {}
    /\ everOpened = <<>>
    /\ msgBytes = <<>>
    /\ written = <<>>
    /\ wire = <<>>
    /\ sent = <<>>
    /\ peerClosed = FALSE
    /\ lengthBytes = <<>>
    /\ lenGot = 0
    /\ respLength = 0
    /\ respBytes = <<>>
    /\ bodyGot = 0
    /\ decoded = <<>>
    /\ req = NoReq
    /\ requests = <<>>
    /\ srv = "none"
    /\ srvStatus = 0
    /\ bodyWire = <<>>
    /\ bodySent = <<>>
    /\ respStatus = 0
    /\ httpBuf = <<>>
    /\ ioLog = <<>>

Init ==
    /\ args \in ArgVectors
    /\ Idle
    /\ law = NoLaw

\* ------------------------------------------------------------- main
\* The steps in the order of the specification: encode, then connect.
TcpNextPc_EncodeFirst(step) ==
    CASE step = "call" -> "pack"
      [] step = "pack" -> "dial"
      [] step = "dial" -> "write"

\* The order of the first steps of DNSOverTCP: the step that follows the
\* call, the dial and the pack.
TcpNextPc(step) ==
    CASE step = "call" -> "dial"
      [] step = "dial" -> "pack"
      [] step = "pack" -> "write"

\* The switch with its default case falling through to the first transport.
SwitchTarget_DefaultTcp(method) ==
    CASE method = "http" -> "DNSOverHTTPS"
      [] OTHER -> "DNSOverTCP"

\* The switch on method: the transport a method name selects.
SwitchTarget(method) ==
    CASE method = "tcp" -> "DNSOverTCP"
      [] method = "http" -> "DNSOverHTTPS"
      [] OTHER -> "none"

\* The two default endpoints passed to the wrong transports.
DefaultEndpoint_Swapped(transport) ==
    IF transport = "DNSOverTCP" THEN DefaultDohURL ELSE DefaultServer

\* The endpoint main passes to a transport.
DefaultEndpoint(transport) ==
    IF transport = "DNSOverTCP" THEN DefaultServer ELSE DefaultDohURL

Method == IF Len(args) >= 3 THEN args[3] ELSE "tcp"

\* main with fewer than two arguments: usage and exit.
MainUsage ==
    /\ mainPc = "start"
    /\ Len(args) < 2
    /\ mainPc' = "exit"
    /\ exit' = "usage"
    /\ UNCHANGED <<args, invoked, question, pc, result, opened, deferred,
                   everOpened, decoded, tcpVars>>
    /\ UNCHANGED httpVars
    /\ UNCHANGED ioLog
    /\ UNCHANGED law

\* The default case of the switch: log.Fatalf ends the process.
MainUnknown ==
    /\ mainPc = "start"
    /\ Len(args) >= 2
    /\ SwitchTarget(Method) = "none"
    /\ mainPc' = "exit"
    /\ exit' = "unknown"
    /\ UNCHANGED <<args, invoked, question, pc, result, opened, deferred,
                   everOpened, decoded, tcpVars>>
    /\ UNCHANGED httpVars
    /\ UNCHANGED ioLog
    /\ UNCHANGED law

\* A known method: the transport is called and builds its query message.
MainCall ==
    /\ mainPc = "start"
    /\ Len(args) >= 2
    /\ SwitchTarget(Method) # "none"
    /\ LET t == SwitchTarget(Method)
       IN  /\ invoked' = [transport |-> t, endpoint |-> DefaultEndpoint(t)]
           /\ pc' = IF t = "DNSOverTCP" THEN TcpNextPc("call") ELSE "hpack"
    /\ question' = [name |-> Fqdn(args[2]), qtype |-> TypeA, rd |-> TRUE]
    /\ mainPc' = "call"
    /\ UNCHANGED <<args, exit, result, opened, deferred, everOpened, decoded,
                   tcpVars>>
    /\ UNCHANGED httpVars
    /\ UNCHANGED ioLog
    /\ UNCHANGED law

\* The transport returned an error: log.Fatalf.
MainFailed ==
    /\ mainPc = "call"
    /\ pc = "done"
    /\ result.err # NoErr
    /\ mainPc' = "exit"
    /\ exit' = "failed"
    /\ UNCHANGED <<args, invoked, question, pc, result, opened, deferred,
                   everOpened, decoded, tcpVars>>
    /\ UNCHANGED httpVars
    /\ UNCHANGED ioLog
    /\ UNCHANGED law

\* The transport returned a message: its answers are printed.
MainPrint ==
    /\ mainPc = "call"
    /\ pc = "done"
    /\ result.err = NoErr
    /\ mainPc' = "exit"
    /\ exit' = "printed"
    /\ UNCHANGED <<args, invoked, question, pc, result, opened, deferred,
                   everOpened, decoded, tcpVars>>
    /\ UNCHANGED httpVars
    /\ UNCHANGED ioLog
    /\ UNCHANGED law

\* ------------------------------------------------------ returning
\* A return on which no deferred Close runs.
AfterDefers_NoClose(open, defers) == open

\* What stays open once the deferred Close calls have run.
AfterDefers(open, defers) == open \ defers

\* A return that starts the call again, once, when it would return an error.
Return_Retry(m, e) ==
    IF e # NoErr /\ Len(ioLog) <= 1
    THEN /\ result' = result
         /\ opened' = AfterDefers(opened, deferred)
         /\ deferred' = {}
         /\ pc' = IF invoked.transport = "DNSOverTCP" THEN "dial" ELSE "do"
    ELSE /\ result' = [msg |-> m, err |-> e]
         /\ opened' = AfterDefers(opened, deferred)
         /\ deferred' = {}
         /\ pc' = "done"

\* A return statement: the result, then the deferred calls.
Return(m, e) ==
    /\ result' = [msg |-> m, err |-> e]
    /\ opened' = AfterDefers(opened, deferred)
    /\ deferred' = {}
    /\ pc' = "done"

\* A return of the message together with the Unpack error.
UnpackReturn_KeepMsg(r) ==
    IF r.ok THEN [msg |-> r.msg, err |-> NoErr]
    ELSE [msg |-> r.msg, err |-> Err("unpack")]

\* The last lines of both transports: the error check on Unpack and the return.
UnpackReturn(r) ==
    IF r.ok THEN [msg |-> r.msg, err |-> NoErr]
    ELSE [msg |-> NilMsg, err |-> Err("unpack")]

\* ------------------------------------------------------- DNSOverTCP
\* net.Dial succeeded; the Close of the connection is deferred.
TcpDialOk ==
    /\ pc = "dial"
    /\ opened' = opened \cup {"conn"}
    /\ deferred' = deferred \cup {"conn"}
    /\ everOpened' = Append(everOpened, "conn")
    /\ pc' = TcpNextPc("dial")
    /\ UNCHANGED <<args, mainPc, exit, invoked, question, result, decoded, tcpVars>>
    /\ UNCHANGED httpVars
    /\ ioLog' = Append(ioLog, "dial")
    /\ UNCHANGED law

\* net.Dial failed.
TcpDialFail ==
    /\ pc = "dial"
    /\ Return(NilMsg, Err("connect"))
    /\ UNCHANGED <<args, mainPc, exit, invoked, question, everOpened, decoded, tcpVars>>
    /\ UNCHANGED httpVars
    /\ ioLog' = Append(ioLog, "dial")
    /\ UNCHANGED law

\* m.Pack() and its error check.
TcpPack ==
    /\ pc = "pack"
    /\ LET r == Pack(question)
       IN  IF r.ok
           THEN /\ msgBytes' = r.bytes
                /\ pc' = TcpNextPc("pack")
                /\ UNCHANGED <<result, opened, deferred>>
           ELSE /\ Return(NilMsg, Err("pack"))
                /\ UNCHANGED msgBytes
    /\ UNCHANGED <<args, mainPc, exit, invoked, question, everOpened, decoded,
                   written, wire, sent, peerClosed, lengthBytes, lenGot,
                   respLength, respBytes, bodyGot>>
    /\ UNCHANGED httpVars
    /\ UNCHANGED ioLog
    /\ UNCHANGED law

\* The conversions and the bit operations of the length prefix, on
\* non-negative integers: uint16(x), byte(x), x | y and x & y.
Uint16(x) == x % 65536
ToByte(x) == x % 256

RECURSIVE BitOr(_, _)
BitOr(a, b) ==
    IF a = 0 THEN b
    ELSE IF b = 0 THEN a
    ELSE (IF a % 2 = 1 \/ b % 2 = 1 THEN 1 ELSE 0) + 2 * BitOr(a \div 2, b \div 2)

RECURSIVE BitAnd(_, _)
BitAnd(a, b) ==
    IF a = 0 \/ b = 0 THEN 0
    ELSE (IF a % 2 = 1 /\ b % 2 = 1 THEN 1 ELSE 0) + 2 * BitAnd(a \div 2, b \div 2)

\* The two prefix bytes with the low byte first.
PrefixBytes_LowFirst(length) ==
    <<ToByte(BitAnd(length, 255)), ToByte(length \div 256)>>

\* The two prefix bytes of a uint16 length: byte(length >> 8), byte(length & 0xFF).
PrefixBytes(length) ==
    <<ToByte(length \div 256), ToByte(BitAnd(length, 255))>>

\* A frame whose prefix keeps only the low byte of the length.
Frame_LowByteOnly(m) == <<0, ToByte(Len(m))>> \o m

\* The request frame: the length as uint16, its two prefix bytes, the message.
Frame(m) == PrefixBytes(Uint16(Len(m))) \o m

\* How far a write that fails may have got: nothing, one byte of the prefix,
\* the prefix alone, or everything but the last byte.
WriteCuts(frame) == {0, 1, 2, Len(frame) - 1} \cap (0..(Len(frame) - 1))

\* conn.Write wrote the whole frame.
TcpWriteOk ==
    /\ pc = "write"
    /\ written' = Frame(msgBytes)
    /\ pc' = "readLen"
    /\ UNCHANGED <<args, mainPc, exit, invoked, question, result, opened, deferred,
                   everOpened, decoded, msgBytes, wire, sent, peerClosed,
                   lengthBytes, lenGot, respLength, respBytes, bodyGot>>
    /\ UNCHANGED httpVars
    /\ ioLog' = Append(ioLog, "write")
    /\ UNCHANGED law

\* conn.Write failed after writing only a part of the frame.
TcpWriteFail ==
    /\ pc = "write"
    /\ \E k \in WriteCuts(Frame(msgBytes)) :
          written' = SubSeq(Frame(msgBytes), 1, k)
    /\ Return(NilMsg, Err("write"))
    /\ UNCHANGED <<args, mainPc, exit, invoked, question, everOpened, decoded,
                   msgBytes, wire, sent, peerClosed, lengthBytes, lenGot,
                   respLength, respBytes, bodyGot>>
    /\ UNCHANGED httpVars
    /\ ioLog' = Append(ioLog, "write")
    /\ UNCHANGED law

\* The peer sends one more byte on the open connection.
TcpPeerSend ==
    /\ "conn" \in opened
    /\ ~peerClosed
    /\ Len(sent) < MaxStream
    /\ \E b \in Byte :
          /\ wire' = Append(wire, b)
          /\ sent' = Append(sent, b)
    /\ UNCHANGED <<args, mainPc, exit, invoked, question, pc, result, opened,
                   deferred, everOpened, decoded, msgBytes, written, peerClosed,
                   lengthBytes, lenGot, respLength, respBytes, bodyGot>>
    /\ UNCHANGED httpVars
    /\ UNCHANGED ioLog
    /\ UNCHANGED law

\* The peer closes the connection.
TcpPeerClose ==
    /\ "conn" \in opened
    /\ ~peerClosed
    /\ peerClosed' = TRUE
    /\ UNCHANGED <<args, mainPc, exit, invoked, question, pc, result, opened,
                   deferred, everOpened, decoded, msgBytes, written, wire, sent,
                   lengthBytes, lenGot, respLength, respBytes, bodyGot>>
    /\ UNCHANGED httpVars
    /\ UNCHANGED ioLog
    /\ UNCHANGED law

\* A read that waits for a byte or for the close also when the buffer is empty.
ConnRead_WaitsOnEmpty(w, closed, size) ==
    IF w # <<>> THEN [blocked |-> FALSE, n |-> Min(Len(w), size), eof |-> FALSE]
    ELSE IF closed THEN [blocked |-> FALSE, n |-> 0, eof |-> TRUE]
    ELSE [blocked |-> TRUE, n |-> 0, eof |-> FALSE]

\* A read that returns everything that has arrived, whatever the buffer holds.
ConnRead_NoLimit(w, closed, size) ==
    IF size = 0 THEN [blocked |-> FALSE, n |-> 0, eof |-> FALSE]
    ELSE IF w # <<>> THEN [blocked |-> FALSE, n |-> Len(w), eof |-> FALSE]
    ELSE IF closed THEN [blocked |-> FALSE, n |-> 0, eof |-> TRUE]
    ELSE [blocked |-> TRUE, n |-> 0, eof |-> FALSE]

\* One conn.Read into a buffer of the given size: it returns at once for an
\* empty buffer, blocks while nothing has arrived and the peer has not closed,
\* returns what has arrived (at most size bytes) otherwise, and EOF when the
\* peer closed with nothing left to read.
ConnRead(w, closed, size) ==
    IF size = 0 THEN [blocked |-> FALSE, n |-> 0, eof |-> FALSE]
    ELSE IF w # <<>> THEN [blocked |-> FALSE, n |-> Min(Len(w), size), eof |-> FALSE]
    ELSE IF closed THEN [blocked |-> FALSE, n |-> 0, eof |-> TRUE]
    ELSE [blocked |-> TRUE, n |-> 0, eof |-> FALSE]

\* The buffer after a read of n bytes: the bytes read, the rest untouched (zero).
Filled(w, n, size) == SubSeq(w, 1, n) \o Zeros(size - n)

\* The response length from the prefix buffer: int(b0)<<8 | int(b1).
RespLength(lb) == BitOr(lb[1] * 256, lb[2])

\* The read of the length prefix, its error check, and the body buffer.
TcpReadLen ==
    /\ pc = "readLen"
    /\ LET r == ConnRead(wire, peerClosed, 2)
       IN  /\ ~r.blocked
           /\ IF r.eof
              THEN /\ Return(NilMsg, Err("readLength"))
                   /\ UNCHANGED <<wire, lengthBytes, lenGot, respLength, respBytes>>
              ELSE /\ lengthBytes' = Filled(wire, r.n, 2)
                   /\ lenGot' = r.n
                   /\ wire' = Drop(wire, r.n)
                   /\ respLength' = RespLength(lengthBytes')
                   /\ respBytes' = Zeros(respLength')
                   /\ pc' = "readBody"
                   /\ UNCHANGED <<result, opened, deferred>>
    /\ UNCHANGED <<args, mainPc, exit, invoked, question, everOpened, decoded,
                   msgBytes, written, sent, peerClosed, bodyGot>>
    /\ UNCHANGED httpVars
    /\ ioLog' = Append(ioLog, "readLength")
    /\ UNCHANGED law

\* The read of the body and its error check.
TcpReadBody ==
    /\ pc = "readBody"
    /\ LET r == ConnRead(wire, peerClosed, respLength)
       IN  /\ ~r.blocked
           /\ IF r.eof
              THEN /\ Return(NilMsg, Err("readBody"))
                   /\ UNCHANGED <<wire, respBytes, bodyGot>>
              ELSE /\ respBytes' = Filled(wire, r.n, respLength)
                   /\ bodyGot' = r.n
                   /\ wire' = Drop(wire, r.n)
                   /\ pc' = "unpack"
                   /\ UNCHANGED <<result, opened, deferred>>
    /\ UNCHANGED <<args, mainPc, exit, invoked, question, everOpened, decoded,
                   msgBytes, written, sent, peerClosed, lengthBytes, lenGot,
                   respLength>>
    /\ UNCHANGED httpVars
    /\ ioLog' = Append(ioLog, "readBody")
    /\ UNCHANGED law

\* resp.Unpack(respBytes) and the return of the message or of the error.
TcpUnpack ==
    /\ pc = "unpack"
    /\ decoded' = Append(decoded, respBytes)
    /\ LET out == UnpackReturn(Unpack(respBytes))
       IN  Return(out.msg, out.err)
    /\ UNCHANGED <<args, mainPc, exit, invoked, question, everOpened, tcpVars>>
    /\ UNCHANGED httpVars
    /\ UNCHANGED ioLog
    /\ UNCHANGED law

\* ----------------------------------------------------- DNSOverHTTPS
\* The character of the URL-safe base64 alphabet with the given index.
B64Char(i) ==
    IF i < 26 THEN 65 + i
    ELSE IF i < 52 THEN 97 + (i - 26)
    ELSE IF i < 62 THEN 48 + (i - 52)
    ELSE IF i = 62 THEN 45 ELSE 95

\* base64.RawURLEncoding.EncodeToString: three bytes give four characters,
\* a last group of one or two bytes gives two or three, and no padding.
RECURSIVE B64(_)
B64(b) ==
    IF Len(b) = 0 THEN <<>>
    ELSE IF Len(b) = 1
         THEN <<B64Char(b[1] \div 4), B64Char((b[1] % 4) * 16)>>
    ELSE IF Len(b) = 2
         THEN <<B64Char(b[1] \div 4), B64Char((b[1] % 4) * 16 + b[2] \div 16),
                B64Char((b[2] % 16) * 4)>>
    ELSE <<B64Char(b[1] \div 4), B64Char((b[1] % 4) * 16 + b[2] \div 16),
           B64Char((b[2] % 16) * 4 + b[3] \div 64), B64Char(b[3] % 64)>>
             \o B64(Drop(b, 3))

\* The characters http.NewRequest accepts unescaped in a query parameter.
UrlSafe == (48..57) \cup (65..90) \cup (97..122) \cup {45, 95}
UrlOK(q) == \A i \in 1..Len(q) : q[i] \in UrlSafe

\* m.Pack() and its error check.
HttpPack ==
    /\ pc = "hpack"
    /\ LET r == Pack(question)
       IN  IF r.ok
           THEN /\ msgBytes' = r.bytes
                /\ pc' = "newRequest"
                /\ UNCHANGED <<result, opened, deferred>>
           ELSE /\ Return(NilMsg, Err("pack"))
                /\ UNCHANGED msgBytes
    /\ UNCHANGED <<args, mainPc, exit, invoked, question, everOpened, decoded,
                   written, wire, sent, peerClosed, lengthBytes, lenGot,
                   respLength, respBytes, bodyGot, httpVars>>
    /\ UNCHANGED ioLog
    /\ UNCHANGED law

\* The GET request: the URL with the dns parameter, and the Accept header.
HttpNewRequest ==
    /\ pc = "newRequest"
    /\ LET encoded == B64(msgBytes)
       IN  IF UrlOK(encoded)
           THEN /\ req' = [method |-> "GET", url |-> invoked.endpoint,
                           dns |-> encoded, accept |-> "application/dns-message"]
                /\ pc' = "do"
                /\ UNCHANGED <<result, opened, deferred>>
           ELSE /\ Return(NilMsg, Err("newRequest"))
                /\ UNCHANGED req
    /\ UNCHANGED <<args, mainPc, exit, invoked, question, everOpened, decoded,
                   tcpVars, requests, srv, srvStatus, bodyWire, bodySent,
                   respStatus, httpBuf>>
    /\ UNCHANGED ioLog
    /\ UNCHANGED law

\* client.Do sends the request and then waits for the response.
HttpDoSend ==
    /\ pc = "do"
    /\ requests' = Append(requests, req)
    /\ pc' = "await"
    /\ UNCHANGED <<args, mainPc, exit, invoked, question, result, opened, deferred,
                   everOpened, decoded, tcpVars, req, srv, srvStatus, bodyWire,
                   bodySent, respStatus, httpBuf>>
    /\ ioLog' = Append(ioLog, "request")
    /\ UNCHANGED law

\* The server answers the request with a status line and headers.
SrvRespond ==
    /\ pc = "await"
    /\ srv = "none"
    /\ srv' = "headers"
    /\ srvStatus' \in Statuses
    /\ UNCHANGED <<args, mainPc, exit, invoked, question, pc, result, opened,
                   deferred, everOpened, decoded, tcpVars, req, requests, bodyWire,
                   bodySent, respStatus, httpBuf>>
    /\ UNCHANGED ioLog
    /\ UNCHANGED law

\* The round trip fails before any response arrives.
SrvFail ==
    /\ pc = "await"
    /\ srv = "none"
    /\ srv' = "failed"
    /\ UNCHANGED <<args, mainPc, exit, invoked, question, pc, result, opened,
                   deferred, everOpened, decoded, tcpVars, req, requests, srvStatus,
                   bodyWire, bodySent, respStatus, httpBuf>>
    /\ UNCHANGED ioLog
    /\ UNCHANGED law

\* The server sends one more byte of the body.
SrvSendBody ==
    /\ pc # "done"
    /\ srv = "headers"
    /\ Len(bodySent) < MaxHttpBody
    /\ \E b \in Byte :
          /\ bodyWire' = Append(bodyWire, b)
          /\ bodySent' = Append(bodySent, b)
    /\ UNCHANGED <<args, mainPc, exit, invoked, question, pc, result, opened,
                   deferred, everOpened, decoded, tcpVars, req, requests, srv,
                   srvStatus, respStatus, httpBuf>>
    /\ UNCHANGED ioLog
    /\ UNCHANGED law

\* The server ends the body.
SrvEnd ==
    /\ pc # "done"
    /\ srv = "headers"
    /\ srv' = "eof"
    /\ UNCHANGED <<args, mainPc, exit, invoked, question, pc, result, opened,
                   deferred, everOpened, decoded, tcpVars, req, requests, srvStatus,
                   bodyWire, bodySent, respStatus, httpBuf>>
    /\ UNCHANGED ioLog
    /\ UNCHANGED law

\* The connection breaks in the middle of the body.
SrvAbort ==
    /\ pc # "done"
    /\ srv = "headers"
    /\ srv' = "abort"
    /\ UNCHANGED <<args, mainPc, exit, invoked, question, pc, result, opened,
                   deferred, everOpened, decoded, tcpVars, req, requests, srvStatus,
                   bodyWire, bodySent, respStatus, httpBuf>>
    /\ UNCHANGED ioLog
    /\ UNCHANGED law

\* No check of the status code: the body is read and decoded whatever it is.
AfterStatus_NoCheck(status) == "readAll"

\* The check of the status code: which ReadAll follows.
AfterStatus(status) == IF status # StatusOK THEN "errBody" ELSE "readAll"

\* client.Do returned a response; the Close of its body is deferred, and the
\* status code decides which ReadAll follows.
HttpDoOk ==
    /\ pc = "await"
    /\ srv \in {"headers", "eof", "abort"}
    /\ respStatus' = srvStatus
    /\ opened' = opened \cup {"body"}
    /\ deferred' = deferred \cup {"body"}
    /\ everOpened' = Append(everOpened, "body")
    /\ pc' = AfterStatus(respStatus')
    /\ UNCHANGED <<args, mainPc, exit, invoked, question, result, decoded, tcpVars,
                   req, requests, srv, srvStatus, bodyWire, bodySent, httpBuf>>
    /\ UNCHANGED ioLog
    /\ UNCHANGED law

\* client.Do returned an error.
HttpDoFail ==
    /\ pc = "await"
    /\ srv = "failed"
    /\ Return(NilMsg, Err("http"))
    /\ UNCHANGED <<args, mainPc, exit, invoked, question, everOpened, decoded,
                   tcpVars, httpVars>>
    /\ UNCHANGED ioLog
    /\ UNCHANGED law

\* One read of ioutil.ReadAll: what has arrived is added to the buffer.
ReadChunk(buf, w) == buf \o w

HttpReadChunk ==
    /\ pc \in {"errBody", "readAll"}
    /\ bodyWire # <<>>
    /\ httpBuf' = ReadChunk(httpBuf, bodyWire)
    /\ bodyWire' = <<>>
    /\ UNCHANGED <<args, mainPc, exit, invoked, question, pc, result, opened,
                   deferred, everOpened, decoded, tcpVars, req, requests, srv,
                   srvStatus, bodySent, respStatus>>
    /\ UNCHANGED ioLog
    /\ UNCHANGED law

\* The error a non-OK status gives: the status and the body that was read.
StatusErr(status, body) == [kind |-> "status", status |-> status, body |-> body]

\* The status is not OK: ReadAll has ended (its error is dropped) and the
\* error with the status and the body is returned.
HttpErrBody ==
    /\ pc = "errBody"
    /\ bodyWire = <<>>
    /\ srv \in {"eof", "abort"}
    /\ Return(NilMsg, StatusErr(respStatus, httpBuf))
    /\ UNCHANGED <<args, mainPc, exit, invoked, question, everOpened, decoded,
                   tcpVars, httpVars>>
    /\ UNCHANGED ioLog
    /\ UNCHANGED law

\* The status is OK: ReadAll has ended, with an error or with the body.
HttpReadAll ==
    /\ pc = "readAll"
    /\ bodyWire = <<>>
    /\ srv \in {"eof", "abort"}
    /\ IF srv = "abort"
       THEN /\ Return(NilMsg, Err("readBody"))
            /\ UNCHANGED respBytes
       ELSE /\ respBytes' = httpBuf
            /\ pc' = "hunpack"
            /\ UNCHANGED <<result, opened, deferred>>
    /\ UNCHANGED <<args, mainPc, exit, invoked, question, everOpened, decoded,
                   msgBytes, written, wire, sent, peerClosed, lengthBytes, lenGot,
                   respLength, bodyGot, httpVars>>
    /\ UNCHANGED ioLog
    /\ UNCHANGED law

\* respMsg.Unpack(respBytes) and the return of the message or of the error.
HttpUnpack ==
    /\ pc = "hunpack"
    /\ decoded' = Append(decoded, respBytes)
    /\ LET out == UnpackReturn(Unpack(respBytes))
       IN  Return(out.msg, out.err)
    /\ UNCHANGED <<args, mainPc, exit, invoked, question, everOpened, tcpVars,
                   httpVars>>
    /\ UNCHANGED ioLog
    /\ UNCHANGED law

\* ------------------------------------------------------ specification
MainStep == MainUsage \/ MainUnknown \/ MainCall \/ MainFailed \/ MainPrint

TcpStep ==
    \/ TcpDialOk \/ TcpDialFail \/ TcpPack \/ TcpWriteOk \/ TcpWriteFail
    \/ TcpReadLen \/ TcpReadBody \/ TcpUnpack

HttpStep ==
    \/ HttpPack \/ HttpNewRequest \/ HttpDoSend \/ HttpDoOk \/ HttpDoFail
    \/ HttpReadChunk \/ HttpErrBody \/ HttpReadAll \/ HttpUnpack

\* The steps of the program itself.
ProgramStep == MainStep \/ TcpStep \/ HttpStep

\* The steps of the peers.
PeerStep ==
    \/ TcpPeerSend \/ TcpPeerClose
    \/ SrvRespond \/ SrvFail \/ SrvSendBody \/ SrvEnd \/ SrvAbort

Next == ProgramStep \/ PeerStep

Spec == Init /\ [][Next]_vars

\* The program takes a step whenever one stays possible; the peers owe nothing.
FairSpec == Spec /\ WF_vars(ProgramStep)

\* ------------------------------------- the request frame on its own
\* An encoded query of n bytes.
Msg(n) == [i \in 1..n |-> i % 251]

\* The lengths of the encoded queries the framing is run on: around one
\* byte, around two bytes, and around the end of the 16-bit range.
FrameLens == {0, 1, 255, 256, 257, 65535, 65536}

\* What the peer has sent when the write begins, before closing its side.
Replies ==
    {<<>>} \cup {<<a>> : a \in Byte} \cup {<<a, b>> : a, b \in Byte}
        \cup {<<a, b, c>> : a, b, c \in Byte}

\* DNSOverTCP about to write, with a connection open and any encoded query.
FrameInit ==
    /\ args = <<"prog", <<97, Dot>>, "tcp">>
    /\ mainPc = "call"
    /\ exit = "none"
    /\ invoked = [transport |-> "DNSOverTCP", endpoint |-> DefaultServer]
    /\ question = [name |-> <<97, Dot>>, qtype |-> TypeA, rd |-> TRUE]
    /\ pc = "write"
    /\ result = [msg |-> NilMsg, err |-> NoErr]
    /\ opened = {"conn"}
    /\ deferred = {"conn"}
    /\ everOpened = <<"conn">>
    /\ \E n \in FrameLens : msgBytes = Msg(n)
    /\ written = <<>>
    /\ sent \in Replies
    /\ wire = sent
    /\ peerClosed = TRUE
    /\ lengthBytes = <<>>
    /\ lenGot = 0
    /\ respLength = 0
    /\ respBytes = <<>>
    /\ bodyGot = 0
    /\ decoded = <<>>
    /\ req = NoReq
    /\ requests = <<>>
    /\ srv = "none"
    /\ srvStatus = 0
    /\ bodyWire = <<>>
    /\ bodySent = <<>>
    /\ respStatus = 0
    /\ httpBuf = <<>>
    /\ ioLog = <<"dial">>
    /\ law = NoLaw

FrameNext ==
    \/ TcpWriteOk \/ TcpWriteFail \/ TcpReadLen \/ TcpReadBody \/ TcpUnpack
    \/ MainFailed \/ MainPrint

FrameSpec == FrameInit /\ [][FrameNext]_vars

\* ------------------------------- the prefix conversions on their own
\* Every uint16 length, and every pair of bytes.
PrefixInit ==
    /\ args = <<"prog">>
    /\ Idle
    /\ \/ \E n \in 0..65535 :
             law = [step |-> "length", n |-> n, bytes |-> <<>>, back |-> -1]
       \/ \E a, b \in 0..255 :
             law = [step |-> "bytes", n |-> -1, bytes |-> <<a, b>>, back |-> -1]

\* The request side: the prefix bytes of a length.
LawEncode ==
    /\ law.step = "length"
    /\ law' = [law EXCEPT !.step = "bytes", !.bytes = PrefixBytes(Uint16(law.n))]
    /\ UNCHANGED progVars

\* The response side: the length of two prefix bytes.
LawDecode ==
    /\ law.step = "bytes"
    /\ law' = [law EXCEPT !.step = "decoded", !.back = RespLength(law.bytes)]
    /\ UNCHANGED progVars

PrefixNext == LawEncode \/ LawDecode

PrefixSpec == PrefixInit /\ [][PrefixNext]_vars

\* ------------------------------------------------------------ claims
IsTcp == invoked.transport = "DNSOverTCP"
IsHttp == invoked.transport = "DNSOverHTTPS"
Returned == pc = "done"
Failed == result.err # NoErr /\ result.msg = NilMsg
\* The body length the peer declared, once it has sent both prefix bytes.
Declared == sent[1] * 256 + sent[2]

\* C1: DNSOverTCP hands a buffer to the decoder only when the body read has
\* received every one of the respLength bytes that the prefix declared.
C1_DecodeOnlyFullBody ==
    (IsTcp /\ lenGot = 2 /\ decoded # <<>>) => bodyGot = respLength

\* C2: when the peer declared L > 0 body bytes (a prefix the transport read
\* whole) and closed after delivering at least one and fewer than L of them,
\* DNSOverTCP returns an error and no Message, and the decoder was never
\* invoked.
C2_TruncatedBodyFails ==
    (/\ IsTcp /\ Returned /\ peerClosed
     /\ lenGot = 2
     /\ Len(sent) > 2
     /\ Len(sent) - 2 < Declared)
        => (Failed /\ decoded = <<>>)

\* C3: the response length is computed only once the prefix read has received
\* exactly 2 bytes; and when the peer closed after fewer than 2 bytes, the call
\* fails with a read error, with no body read and no decode attempted.
C3_PrefixFullyRead ==
    /\ lenGot # 0 => lenGot = 2
    /\ (IsTcp /\ Returned /\ peerClosed /\ Len(sent) < 2 /\ "readLength" \in Range(ioLog))
          => (/\ Failed
              /\ result.err.kind = "readLength"
              /\ "readBody" \notin Range(ioLog)
              /\ decoded = <<>>)

\* C4: every resolution terminates when the peer stays silent: either the
\* peer does something (sends a byte, closes, answers or fails the request)
\* or the program reaches its exit.
C4_SilentPeerTerminates ==
    <>(\/ mainPc = "exit"
       \/ sent # <<>> \/ peerClosed
       \/ srv # "none")

\* C5: when a transport has returned, nothing it opened is still open: the
\* connection of DNSOverTCP and the response body of DNSOverHTTPS are closed.
C5_ReleasedOnReturn == Returned => opened = {}

C5_Witness == Returned /\ everOpened # <<>> /\ Failed

\* C6: DNSOverHTTPS, for a status code other than 200, never invokes the
\* decoder and returns no Message but the error that carries the status the
\* server sent and the body text the server sent.
C6_NonOkStatusIsError ==
    (IsHttp /\ Returned /\ respStatus \notin {0, StatusOK})
        => (/\ decoded = <<>>
            /\ result.msg = NilMsg
            /\ result.err = StatusErr(srvStatus, bodySent))

C6_Witness ==
    IsHttp /\ Returned /\ respStatus \notin {0, StatusOK} /\ bodySent # <<>>

\* C7: DNSOverHTTPS never holds more than BodyCap body bytes in memory, and no
\* body longer than BodyCap is handed to the decoder.
C7_BodyBufferBounded ==
    /\ Len(httpBuf) <= BodyCap
    /\ IsHttp => \A i \in 1..Len(decoded) : Len(decoded[i]) <= BodyCap

\* C8: every return of a transport yields exactly one of a Message and an
\* error, and a Message only when the decoder succeeded on the response bytes.
C8_MessageXorError ==
    Returned =>
        /\ (result.msg = NilMsg) <=> (result.err # NoErr)
        /\ result.msg # NilMsg =>
              /\ decoded # <<>>
              /\ Unpack(decoded[Len(decoded)]).ok
              /\ result.msg = Unpack(decoded[Len(decoded)]).msg
        /\ result.err # NoErr /\ decoded # <<>> => ~Unpack(decoded[Len(decoded)]).ok

C8_Witness == Returned /\ result.msg # NilMsg /\ result.msg.answers # <<>>

\* C9: for a method name that is not a known transport name, main ends in the
\* fatal "unknown method" error, no transport is invoked, no connection is
\* opened and no request is sent.
C9_UnknownMethodIsFatal ==
    (Len(args) >= 3 /\ args[3] \notin {"tcp", "http"})
        => (/\ invoked.transport = "none"
            /\ pc = "idle"
            /\ everOpened = <<>>
            /\ ioLog = <<>>
            /\ requests = <<>>
            /\ exit \in {"none", "unknown"}
            /\ mainPc = "exit" => exit = "unknown")

C9_Witness == Len(args) >= 3 /\ args[3] = "udp" /\ mainPc = "exit" /\ exit = "unknown"

\* C10 as stated: method "tcp" invokes DNSOverTCP with the default resolver
\* host, and method "doh" invokes DNSOverHTTPS with the default DoH URL.
C10_TcpAndDoh ==
    (mainPc # "start" /\ Len(args) >= 2)
        => (/\ Method = "tcp" =>
                 invoked = [transport |-> "DNSOverTCP", endpoint |-> "8.8.8.8"]
            /\ Method = "doh" =>
                 invoked = [transport |-> "DNSOverHTTPS",
                            endpoint |-> "https://cloudflare-dns.com/dns-query"])

\* C10 amended: the method names are "tcp" and "http": "tcp" invokes
\* DNSOverTCP with the default resolver host, and "http" invokes DNSOverHTTPS
\* with the default DoH URL.
C10_TcpAndHttp ==
    (mainPc # "start" /\ Len(args) >= 2)
        => (/\ Method = "tcp" =>
                 invoked = [transport |-> "DNSOverTCP", endpoint |-> "8.8.8.8"]
            /\ Method = "http" =>
                 invoked = [transport |-> "DNSOverHTTPS",
                            endpoint |-> "https://cloudflare-dns.com/dns-query"])

C10_Witness ==
    /\ Len(args) >= 3 /\ args[3] = "http"
    /\ IsHttp /\ requests # <<>> /\ requests[1].url = DefaultDohURL

\* C11: a TCP resolution whose peer replied with the frame of B, however the
\* stream delivered it, and a DoH resolution whose server replied 200 with
\* the body B, both return the decoder's result on exactly B.
C11_SameOutcomeAsDecoder ==
    /\ (/\ IsTcp /\ Returned
        /\ "readLength" \in Range(ioLog)
        /\ Len(sent) >= 2
        /\ sent = Frame(Drop(sent, 2)))
          => result = UnpackReturn(Unpack(Drop(sent, 2)))
    /\ (IsHttp /\ Returned /\ respStatus = StatusOK /\ srv = "eof")
          => result = UnpackReturn(Unpack(bodySent))

\* C16 as stated: when the encoding of the query fails, DNSOverTCP returns the
\* encode error and no connection to the server was ever opened.
C16_EncodeBeforeConnect ==
    (IsTcp /\ Returned /\ result.err.kind = "pack") => everOpened = <<>>

\* C16 amended: the order is connect, then encode: when the encoding fails,
\* the connection has been opened by the one dial before it, nothing was
\* written or read on it, it is closed on return, and the encode error is
\* returned with no Message; a failed dial returns before any encoding.
C16_ConnectBeforeEncode ==
    /\ (IsTcp /\ Returned /\ result.err.kind = "pack")
          => (/\ everOpened = <<"conn">>
              /\ ioLog = <<"dial">>
              /\ written = <<>>
              /\ opened = {}
              /\ result.msg = NilMsg)
    /\ (IsTcp /\ Returned /\ result.err.kind = "connect")
          => (msgBytes = <<>> /\ everOpened = <<>>)

C16_Witness == IsTcp /\ Returned /\ result.err.kind = "pack"

IsPrefix(s, t) == Len(s) <= Len(t) /\ s = SubSeq(t, 1, Len(s))

\* C19: whenever DNSOverTCP invokes the decoder, the buffer has exactly the
\* length decoded from the prefix buffer, and holds the bytes the body read
\* returned (the stream right after the prefix bytes read) followed by zeros:
\* no byte the peer sent beyond that length is part of it.
C19_DecodeBufferHasDeclaredLength ==
    (IsTcp /\ decoded # <<>>)
        => (/\ Len(decoded) = 1
            /\ Len(decoded[1]) = respLength
            /\ respLength = lengthBytes[1] * 256 + lengthBytes[2]
            /\ bodyGot <= respLength
            /\ decoded[1] = SubSeq(sent, lenGot + 1, lenGot + bodyGot)
                                \o Zeros(respLength - bodyGot))

\* The decoder ran on a whole body while further bytes of the peer were
\* waiting on the stream.
C19_Witness ==
    /\ IsTcp /\ decoded # <<>>
    /\ lenGot = 2 /\ respLength > 0 /\ bodyGot = respLength
    /\ wire # <<>>

\* C14: no retries: a resolution dials at most once, writes at most one frame
\* and sends at most one HTTP request, each I/O call is made at most once and
\* in program order, and a call that fails is the last I/O call made: the
\* error is returned.
C14_NoRetry ==
    /\ Len(everOpened) <= 1
    /\ Len(requests) <= 1
    /\ \/ IsPrefix(ioLog, <<"dial", "write", "readLength", "readBody">>)
       \/ IsPrefix(ioLog, <<"request">>)
    /\ Returned /\ result.err # NoErr /\ ioLog # <<>> =>
          LET last == ioLog[Len(ioLog)]
              kind == result.err.kind
          IN  /\ kind = "connect" => last = "dial"
              /\ kind = "pack" => last = "dial"
              /\ kind = "write" => last = "write" /\ written # Frame(msgBytes)
              /\ kind = "readLength" => last = "readLength"
              /\ kind = "readBody" /\ IsTcp => last = "readBody"
              /\ kind \in {"http", "status", "readBody", "unpack"} /\ IsHttp
                    => last = "request"
    /\ mainPc = "exit" => Returned \/ ioLog = <<>>

\* A resolution that failed after its dial and its write.
C14_Witness ==
    /\ IsTcp /\ Returned /\ result.err.kind = "readLength"
    /\ ioLog = <<"dial", "write", "readLength">>

\* C13: when the response length decoded from the prefix is 0, DNSOverTCP
\* does not wait for body bytes: whatever the peer does from then on, the
\* call returns, and it returns the decode error of the empty body and no
\* Message.
C13_ZeroLengthReturnsError ==
    [](IsTcp /\ pc = "readBody" /\ respLength = 0
          => <>(/\ Returned
                /\ decoded = << <<>> >>
                /\ result = [msg |-> NilMsg, err |-> Err("unpack")]))

\* The peer sent the prefix 0x00 0x00 and then nothing: the call returned the
\* decode error.
C13_Witness ==
    /\ IsTcp /\ Returned
    /\ sent = <<0, 0>> /\ lenGot = 2 /\ ~peerClosed
    /\ result.err.kind = "unpack"

\* C12: for an encoded query of n <= 65535 bytes, what DNSOverTCP writes is
\* the byte n div 256, the byte n mod 256 and the n message bytes in order;
\* nothing is written before the write, a write that fails leaves a proper
\* part of that frame and returns the write error, and the prefix read begins
\* only after the whole frame was written.
C12_FrameWritten ==
    LET n == Len(msgBytes)
        frame == <<n \div 256, n % 256>> \o msgBytes
    IN  n <= 65535 =>
          /\ pc = "write" => written = <<>> /\ "readLength" \notin Range(ioLog)
          /\ "write" \in Range(ioLog) =>
                \/ written = frame
                \/ /\ Returned
                   /\ result.err.kind = "write"
                   /\ IsPrefix(written, frame) /\ written # frame
                   /\ "readLength" \notin Range(ioLog)
          /\ "readLength" \in Range(ioLog) => written = frame

\* The largest query that fits the prefix was written whole, and the prefix
\* read has begun.
C12_Witness ==
    /\ "readLength" \in Range(ioLog)
    /\ Len(msgBytes) = 65535
    /\ written[1] = 255 /\ written[2] = 255
    /\ Len(written) = 65537

C18_PrefixRoundTrip ==
    /\ law.step \in {"bytes", "decoded"} /\ law.n >= 0
          => law.bytes = <<law.n \div 256, law.n % 256>>
    /\ law.step = "decoded"
          => (/\ law.back = law.bytes[1] * 256 + law.bytes[2]
              /\ law.back \in 0..65535
              /\ law.n >= 0 => law.back = law.n)

C18_Witness == law.step = "decoded" /\ law.n = 65535 /\ law.back = 65535

====
